---- MODULE Spec2Model ----
(***************************************************************************)
(* Camera capture pipeline of the document scanner (camera module):        *)
(* module state stream / cameraActive / cameraFacing / capturedImage, the   *)
(* DOM properties the handlers write, the suspended startCamera and        *)
(* saveDocument coroutines, and the platform's live camera streams.         *)
(*                                                                         *)
(* Every action is one run-to-completion job of the single JavaScript      *)
(* thread: an event handler up to its first await, or the continuation of  *)
(* a coroutine from one await to the next.  The page template is not part  *)
(* of the sources: a click is dispatched to a handler unless the code      *)
(* itself has disabled or hidden that button (startBtn, saveBtn), or has   *)
(* not yet shown it (switchBtn, shown by checkCameraAvailability); the     *)
(* other handlers can be invoked in every state, as the event surface of   *)
(* the specification requires.  The page is loaded on one of the platforms *)
(* of Platforms; enhanceImageForOCR is also specified on its own           *)
(* (SpecEnhance), and SpecLive adds the fairness of the platform.          *)
(***************************************************************************)
EXTENDS Integers, Sequences, FiniteSets, Bags, TLC

\* ---------------------------------------------------------------- bounds
MaxStarts  == 2     \* startCamera coroutines suspended at the same time
MaxSaves   == 2     \* saveDocument coroutines suspended at the same time
MaxStreams == 2     \* distinct stream identities in use at the same time
NumFrames  == 1     \* distinct video frames the camera can show
MaxPixels  == 2     \* pixels of an image handed to enhanceImageForOCR
MaxCams    == 2     \* video input devices the platform can have

SaveIds   == 1..MaxSaves
StreamIds == 1..MaxStreams
Frames    == 1..NumFrames

\* ------------------------------------------------------------- constants
Facings    == {"environment", "user"}
ErrorNames == {"NotAllowedError", "NotFoundError", "NotReadableError", "Other"}

NoStream == [id |-> 0, facing |-> "none"]
NoImage  == [jpeg |-> FALSE, px |-> 0]

NoSave  == [pc |-> "idle", image |-> NoImage,
            view0 |-> "none", held0 |-> FALSE, active0 |-> FALSE]
NoOut   == [op |-> "none", msg |-> "none", calls |-> << >>, sid |-> 0]

\* The platforms the page can be loaded on: media is
\* navigator.mediaDevices && navigator.mediaDevices.getUserMedia, cams the
\* number of videoinput devices enumerateDevices reports.
Platforms ==
    {[media |-> FALSE, cams |-> 0]}
        \cup {[media |-> TRUE, cams |-> n] : n \in 0..MaxCams}

\* No ImageData object exists (outside capturePhoto).
NoImageData == [data |-> << >>, width |-> 0, height |-> 0, enhanced |-> FALSE]

VARIABLES
    stream,         \* let stream: the held MediaStream, NoStream for null
    cameraActive,   \* let cameraActive
    cameraFacing,   \* let cameraFacing
    capturedImage,  \* let capturedImage: data URL, NoImage for null
    video,          \* video element: srcObject, metadata loaded, onloadedmetadata
    dom,            \* disabled / style.display of the buttons and containers
    starts,         \* bag of the suspended startCamera coroutines
    saves,          \* suspended saveDocument coroutines
    live,           \* platform: streams acquired whose tracks are not stopped
    navigated,      \* window.location was assigned: the page is gone
    out,            \* what the last job did: messages shown, platform calls
    platform,       \* the platform the page runs on (never changes)
    check,          \* checkCameraAvailability: "enum" while it awaits
                    \* enumerateDevices, then "done" or "failed"; "unsupported"
                    \* when it returned at once
    imageData       \* the ImageData enhanceImageForOCR works on: data is the
                    \* byte array (R, G, B, A per pixel), with width and height

vars == <<stream, cameraActive, cameraFacing, capturedImage, video, dom,
          starts, saves, live, navigated, out, platform, check, imageData>>

\* ------------------------------------------------------- pure functions

\* cameraFacing === 'environment' ? 'user' : 'environment'
ToggleToUser(f) == "user"
Toggle(f) == IF f = "environment" THEN "user" ELSE "environment"

\* Storing a number into a Uint8ClampedArray: round to nearest, ties to even.
\* x100 is the value times 100.
RoundHalfEven(x100) ==
    LET q == x100 \div 100
        r == x100 % 100
    IN  IF r < 50 THEN q
        ELSE IF r > 50 THEN q + 1
        ELSE IF q % 2 = 0 THEN q ELSE q + 1

\* One channel of enhanceImageForOCR: ((v - 128) * 1.4 + 128) * 1.1, then
\* Math.min(255, Math.max(0, .)), then the store into the byte array.
\* In hundredths: ((v - 128) * 14 + 1280) * 11.
EnhanceChannelTrunc(v) ==
    LET x100 == ((v - 128) * 14 + 1280) * 11
    IN  IF x100 <= 0 THEN 0
        ELSE IF x100 >= 25500 THEN 255
        ELSE x100 \div 100
EnhanceChannel(v) ==
    LET x100 == ((v - 128) * 14 + 1280) * 11
    IN  IF x100 <= 0 THEN 0
        ELSE IF x100 >= 25500 THEN 255
        ELSE RoundHalfEven(x100)

\* The loop of enhanceImageForOCR from byte i on (1-based): the three colour
\* bytes of each pixel are rewritten in place, the fourth is not touched.
RECURSIVE EnhanceFrom(_, _)
EnhanceFrom(data, i) ==
    IF i > Len(data) THEN data
    ELSE EnhanceFrom([data EXCEPT ![i]     = EnhanceChannel(data[i]),
                                  ![i + 1] = EnhanceChannel(data[i + 1]),
                                  ![i + 2] = EnhanceChannel(data[i + 2])],
                     i + 4)

\* enhanceImageForOCR(imageData): returns the same object, data rewritten.
EnhanceImageForOCR(img) ==
    [img EXCEPT !.data = EnhanceFrom(img.data, 1), !.enhanced = TRUE]

\* The images getImageData can hand over (inputs of the model): n pixels in
\* one row; over the choices of v every colour byte takes every value
\* 0..255.
PixelBytes(v, a, j) ==
    <<(v + 37 * (j - 1)) % 256, (v + 85) % 256, (v + 170) % 256, a>>

RECURSIVE ImageBytes(_, _, _)
ImageBytes(v, a, n) ==
    IF n = 0 THEN << >> ELSE ImageBytes(v, a, n - 1) \o PixelBytes(v, a, n)

InputImages ==
    {[data |-> ImageBytes(v, a, n), width |-> n, height |-> 1,
      enhanced |-> FALSE] : v \in 0..255, a \in {0, 128, 255},
                            n \in 1..MaxPixels}

\* The sample the camera shows in frame k (an input of the model).
FramePixel(k) == (k * 83) % 256

\* canvas.toDataURL('image/jpeg', 0.95) of the enhanced frame.
ToDataURL(px) == [jpeg |-> TRUE, px |-> px]

\* The message startCamera's catch block shows for an error name.
ErrorMessage(name) ==
    IF name = "NotAllowedError" THEN "CameraDenied"
    ELSE IF name = "NotFoundError" THEN "CameraNotFound"
    ELSE IF name = "NotReadableError" THEN "CameraBusy"
    ELSE "CameraOther"

StartMessages == {ErrorMessage(n) : n \in ErrorNames}

\* ------------------------------------------------------------ view state
ViewState == IF dom.previewView = "flex" THEN "PREVIEW" ELSE "LIVE"

StartControlAvailable == ~dom.startBtnDisabled /\ dom.startBtnDisplay # "none"

Starts == BagToSet(starts)

\* Room for one more suspended startCamera (the bound of the model).
CanStart == BagCardinality(starts) < MaxStarts

\* The bag of coroutines with r removed, and with r replaced by q.
Without(r) == starts (-) SetToBag({r})
Replaced(r, q) == Without(r) (+) SetToBag({q})

FreeSaves  == {s \in SaveIds : saves[s].pc = "idle"}

\* Stream identities some variable still refers to.
UsedIds ==
    {x.id : x \in live} \cup {stream.id, video.src}
      \cup {r.own.id : r \in Starts} \cup {r.track.id : r \in Starts}

FreeIds == StreamIds \ UsedIds

Min(S) == CHOOSE x \in S : \A y \in S : x <= y

\* ------------------------------------------------------------------ Init
InitSession ==
    /\ stream = NoStream
    /\ cameraActive = FALSE
    /\ cameraFacing = "environment"
    /\ capturedImage = NoImage
    /\ video = [src |-> 0, meta |-> FALSE, onloaded |-> 0]
    /\ platform \in Platforms
    /\ check = IF platform.media THEN "enum" ELSE "unsupported"
    /\ dom = [startBtnDisabled |-> ~platform.media,
              startBtnDisplay |-> "inline-block",
              switchBtnDisplay |-> "none",
              cameraView |-> "block", captureControls |-> "none",
              previewView |-> "none", previewControls |-> "none",
              saveBtnDisabled |-> FALSE]
    /\ starts = EmptyBag
    /\ saves = [s \in SaveIds |-> NoSave]
    /\ live = {}
    /\ navigated = FALSE
    /\ out = IF platform.media THEN NoOut
             ELSE [NoOut EXCEPT !.op = "check", !.msg = "Unsupported"]

Init ==
    /\ InitSession
    /\ imageData = NoImageData


\* -------------------------------------------------- session state record
\* The part of the state stopCamera and startCamera work on, with the
\* platform calls made so far by the running job.
Cur == [stream |-> stream, live |-> live, video |-> video,
        cameraActive |-> cameraActive, calls |-> << >>]

Call(name, id, facing) == [call |-> name, id |-> id, facing |-> facing]

\* stopCamera(): stop the tracks of the held stream, forget it, detach the
\* video element, clear the active flag.
StopCameraKeepActive(st) ==
    [stream |-> NoStream,
     live |-> st.live \ {st.stream},
     video |-> [st.video EXCEPT !.src = 0, !.meta = FALSE],
     cameraActive |-> st.cameraActive,
     calls |-> IF st.stream # NoStream
               THEN Append(st.calls, Call("stop", st.stream.id, "none"))
               ELSE st.calls]
StopCamera(st) ==
    [stream |-> NoStream,
     live |-> st.live \ {st.stream},
     video |-> [st.video EXCEPT !.src = 0, !.meta = FALSE],
     cameraActive |-> FALSE,
     calls |-> IF st.stream # NoStream
               THEN Append(st.calls, Call("stop", st.stream.id, "none"))
               ELSE st.calls]

\* startCamera() up to its first await: release the held stream if there is
\* one, then request the camera with the current facing.
StartCameraSync(st, facing) ==
    LET a == IF st.stream # NoStream THEN StopCamera(st) ELSE st
    IN  [a EXCEPT !.calls = Append(@, Call("getUserMedia", 0, facing))]

\* updateUI() with cameraActive true.
UpdateUIActive(d) ==
    [d EXCEPT !.startBtnDisplay = "none", !.cameraView = "block",
              !.captureControls = "flex"]

\* The catch block of startCamera: show the message, re-enable the button.
StartCatchDom(d) == [d EXCEPT !.startBtnDisabled = FALSE]

\* saveDocument before the request: saveBtn.disabled = true.
SaveStartDomEnabled(d) == d
SaveStartDom(d) == [d EXCEPT !.saveBtnDisabled = TRUE]

\* The catch / else branch of saveDocument: re-enable the save button.
SaveFailDom(d) == [d EXCEPT !.saveBtnDisabled = FALSE]

\* capturePhoto() switching to the preview.
ShowPreviewHidden(d) ==
    [d EXCEPT !.cameraView = "none", !.captureControls = "none",
              !.previewControls = "flex"]
ShowPreview(d) ==
    [d EXCEPT !.cameraView = "none", !.captureControls = "none",
              !.previewView = "flex", !.previewControls = "flex"]

\* retakePhoto() switching back to the camera.
ShowCameraKeepPreview(d) ==
    [d EXCEPT !.cameraView = "block", !.captureControls = "flex"]
ShowCamera(d) ==
    [d EXCEPT !.previewView = "none", !.previewControls = "none",
              !.cameraView = "block", !.captureControls = "flex"]

\* capturePhoto's guard: if (!cameraActive) { showError(...); return; }
CanCaptureAlways(active) == TRUE
CanCapture(active) == active

\* saveDocument's guard: if (!capturedImage) { showError(...); return; }
HasImageAlways(img) == TRUE
HasImage(img) == img # NoImage

Apply(st) ==
    /\ stream' = st.stream
    /\ live' = st.live
    /\ video' = st.video
    /\ cameraActive' = st.cameraActive

NewStart(facing) ==
    [pc |-> "gum", facing |-> facing, own |-> NoStream, track |-> NoStream]

\* startCamera() on a platform without navigator.mediaDevices.getUserMedia:
\* the held stream is released, then the call throws TypeError.
StartCameraThrows(st) ==
    IF st.stream # NoStream THEN StopCamera(st) ELSE st

\* startCamera() invoked by handler op with DOM d, up to its first await.
\* Without getUserMedia the call at line 108 throws inside the try block and
\* the catch block runs in the same job.
StartCamera(d, facing, op) ==
    IF platform.media
    THEN LET st == StartCameraSync(Cur, facing)
         IN  /\ Apply(st)
             /\ starts' = starts (+) SetToBag({NewStart(facing)})
             /\ dom' = [d EXCEPT !.startBtnDisabled = TRUE]
             /\ out' = [op |-> op, msg |-> "none", calls |-> st.calls,
                        sid |-> 0]
    ELSE LET st == StartCameraThrows(Cur)
         IN  /\ Apply(st)
             /\ starts' = starts
             /\ dom' = StartCatchDom([d EXCEPT !.startBtnDisabled = TRUE])
             /\ out' = [op |-> "startFailed", msg |-> "CameraOther",
                        calls |-> st.calls, sid |-> 0]

\* --------------------------------------------------------------- actions

\* videoDevices.length > 1: the switch button is to be shown.
ShowsSwitchAny(n) == n > 0
ShowsSwitch(n) == n > 1

\* enumerateDevices resolves in checkCameraAvailability: no videoinput
\* device -> message, startBtn.disabled = true; more than one -> the switch
\* button is shown.
EnumerateResolve ==
    /\ ~navigated
    /\ check = "enum"
    /\ check' = "done"
    /\ IF platform.cams = 0
       THEN /\ dom' = [dom EXCEPT !.startBtnDisabled = TRUE]
            /\ out' = [op |-> "check", msg |-> "NoCameraOnDevice",
                       calls |-> << >>, sid |-> 0]
       ELSE /\ dom' = IF ShowsSwitch(platform.cams)
                      THEN [dom EXCEPT !.switchBtnDisplay = "inline-block"]
                      ELSE dom
            /\ out' = [op |-> "check", msg |-> "none", calls |-> << >>,
                       sid |-> 0]
    /\ UNCHANGED <<stream, cameraActive, cameraFacing, capturedImage, video,
                   starts, saves, live, navigated, platform, imageData>>

\* enumerateDevices rejects: the catch block only logs.
EnumerateReject ==
    /\ ~navigated
    /\ check = "enum"
    /\ check' = "failed"
    /\ out' = [op |-> "checkFailed", msg |-> "none", calls |-> << >>,
               sid |-> 0]
    /\ UNCHANGED <<stream, cameraActive, cameraFacing, capturedImage, video,
                   dom, starts, saves, live, navigated, platform, imageData>>

\* click on startBtn -> startCamera()
StartClick ==
    /\ ~navigated
    /\ UNCHANGED <<platform, check, imageData>>
    /\ StartControlAvailable
    /\ CanStart
    /\ StartCamera(dom, cameraFacing, "start")
    /\ UNCHANGED <<cameraFacing, capturedImage, saves, navigated>>

\* click on switchBtn -> switchCamera()
SwitchClick ==
    /\ ~navigated
    /\ UNCHANGED <<platform, check, imageData>>
    /\ dom.switchBtnDisplay # "none"
    /\ cameraActive => CanStart
    /\ cameraFacing' = Toggle(cameraFacing)
    /\ IF cameraActive
       THEN StartCamera(dom, Toggle(cameraFacing), "switch")
       ELSE /\ out' = [op |-> "switch", msg |-> "none", calls |-> << >>,
                       sid |-> 0]
            /\ UNCHANGED <<stream, live, video, cameraActive, starts, dom>>
    /\ UNCHANGED <<capturedImage, saves, navigated>>

\* getUserMedia resolves for start r: stream = <new stream>;
\* video.srcObject = stream; video.onloadedmetadata = <resolver of r>
\* (onloaded names the stream whose start installed the resolver).
GumResolve(r) ==
    /\ ~navigated
    /\ UNCHANGED <<platform, check, imageData>>
    /\ r.pc = "gum"
    /\ platform.cams > 0
    /\ FreeIds # {}
    /\ LET s == [id |-> Min(FreeIds), facing |-> r.facing]
       IN  /\ stream' = s
           /\ live' = live \cup {s}
           /\ video' = [src |-> s.id, meta |-> FALSE, onloaded |-> s.id]
           /\ starts' = Replaced(r, [r EXCEPT !.pc = "meta", !.own = s])
           /\ out' = [op |-> "gumOk", msg |-> "none", calls |-> << >>,
                      sid |-> s.id]
    /\ UNCHANGED <<cameraActive, cameraFacing, capturedImage, dom, saves,
                   navigated>>

\* getUserMedia rejects for start r with the given error name.
GumReject(r, name) ==
    /\ ~navigated
    /\ UNCHANGED <<platform, check, imageData>>
    /\ r.pc = "gum"
    /\ starts' = Without(r)
    /\ dom' = StartCatchDom(dom)
    /\ out' = [op |-> "startFailed", msg |-> ErrorMessage(name),
               calls |-> << >>, sid |-> 0]
    /\ UNCHANGED <<stream, cameraActive, cameraFacing, capturedImage, video,
                   saves, live, navigated>>

\* The video element loads the metadata of its srcObject and calls
\* onloadedmetadata; the start that installed it resumes: it takes the video
\* track of the held stream and reads its capabilities (capsOk: the platform
\* supports getCapabilities), then awaits applyConstraints.
LoadedMetadata(capsOk) ==
    /\ ~navigated
    /\ UNCHANGED <<platform, check, imageData>>
    /\ video.src # 0
    /\ ~video.meta
    /\ video' = [video EXCEPT !.meta = TRUE]
    /\ LET W == {r \in Starts : r.pc = "meta" /\ r.own.id = video.onloaded}
       IN  IF W # {}
           THEN LET r == CHOOSE x \in W : TRUE
                IN  IF stream = NoStream \/ ~capsOk
                    THEN /\ starts' = Without(r)
                         /\ dom' = StartCatchDom(dom)
                         /\ out' = [op |-> "startFailed", msg |-> "CameraOther",
                                    calls |-> << >>, sid |-> r.own.id]
                    ELSE /\ starts' = Replaced(r, [r EXCEPT !.pc = "apply",
                                                            !.track = stream])
                         /\ out' = [op |-> "metadata", msg |-> "none",
                                    calls |-> << >>, sid |-> r.own.id]
                         /\ dom' = dom
           ELSE /\ out' = [op |-> "metadata", msg |-> "none",
                           calls |-> << >>, sid |-> 0]
                /\ UNCHANGED <<starts, dom>>
    /\ UNCHANGED <<stream, cameraActive, cameraFacing, capturedImage, saves,
                   live, navigated>>

\* applyConstraints settles for start r (a rejection is only warned about):
\* cameraActive = true; updateUI().
ApplySettled(r, ok) ==
    /\ ~navigated
    /\ UNCHANGED <<platform, check, imageData>>
    /\ r.pc = "apply"
    /\ cameraActive' = TRUE
    /\ dom' = UpdateUIActive(dom)
    /\ starts' = Without(r)
    /\ out' = [op |-> "started", msg |-> "none", calls |-> << >>, sid |-> r.own.id]
    /\ UNCHANGED <<stream, cameraFacing, capturedImage, video, saves, live,
                   navigated>>

\* click on captureBtn -> capturePhoto(); k is the frame shown, encOk tells
\* whether drawing and encoding succeed.  A video element without loaded
\* metadata has videoWidth 0 and getImageData throws on the empty canvas.
CaptureClick(k, encOk) ==
    /\ ~navigated
    /\ UNCHANGED <<platform, check, imageData>>
    /\ IF ~CanCapture(cameraActive)
       THEN /\ out' = [op |-> "capture", msg |-> "NotActive",
                       calls |-> << >>, sid |-> 0]
            /\ UNCHANGED <<stream, cameraActive, capturedImage, video, dom,
                           live>>
       ELSE IF video.src = 0 \/ ~video.meta \/ ~encOk
       THEN /\ out' = [op |-> "capture", msg |-> "CaptureFailed",
                       calls |-> << >>, sid |-> 0]
            /\ UNCHANGED <<stream, cameraActive, capturedImage, video, dom,
                           live>>
       ELSE LET st == StopCamera(Cur)
            IN  /\ capturedImage' = ToDataURL(EnhanceChannel(FramePixel(k)))
                /\ dom' = ShowPreview(dom)
                /\ Apply(st)
                /\ out' = [op |-> "capture", msg |-> "none",
                           calls |-> st.calls, sid |-> 0]
    /\ UNCHANGED <<cameraFacing, starts, saves, navigated>>

\* click on retakeBtn -> retakePhoto()
RetakeClick ==
    /\ ~navigated
    /\ UNCHANGED <<platform, check, imageData>>
    /\ CanStart
    /\ capturedImage' = NoImage
    /\ StartCamera(ShowCamera(dom), cameraFacing, "retake")
    /\ UNCHANGED <<cameraFacing, saves, navigated>>

\* click on saveBtn -> saveDocument() up to the fetch.  image is the image in
\* the request body; view0, held0 and active0 remember the view, whether a
\* stream was held and the active flag at the invocation.
SaveClick ==
    /\ ~navigated
    /\ UNCHANGED <<platform, check, imageData>>
    /\ ~dom.saveBtnDisabled
    /\ HasImage(capturedImage) => FreeSaves # {}
    /\ IF ~HasImage(capturedImage)
       THEN /\ out' = [op |-> "save", msg |-> "NothingToSave",
                       calls |-> << >>, sid |-> 0]
            /\ UNCHANGED <<dom, saves>>
       ELSE LET s == Min(FreeSaves)
            IN  /\ dom' = SaveStartDom(dom)
                /\ saves' = [saves EXCEPT ![s] =
                               [pc |-> "fetch", image |-> capturedImage,
                                view0 |-> ViewState,
                                held0 |-> stream # NoStream, active0 |-> cameraActive]]
                /\ out' = [op |-> "save", msg |-> "none",
                           calls |-> <<Call("fetch", capturedImage.px, "none")>>,
                           sid |-> 0]
    /\ UNCHANGED <<stream, cameraActive, cameraFacing, capturedImage, video,
                   starts, live, navigated>>

\* fetch settles for save s: on a response, await response.json(); on a
\* transport error, the catch block.
FetchSettled(s, ok) ==
    /\ ~navigated
    /\ UNCHANGED <<platform, check, imageData>>
    /\ saves[s].pc = "fetch"
    /\ IF ok
       THEN /\ saves' = [saves EXCEPT ![s].pc = "json"]
            /\ out' = [op |-> "fetchOk", msg |-> "none", calls |-> << >>,
                       sid |-> 0]
            /\ dom' = dom
       ELSE /\ saves' = [saves EXCEPT ![s] = NoSave]
            /\ dom' = SaveFailDom(dom)
            /\ out' = [op |-> "saveFailed", msg |-> "ServerError",
                       calls |-> << >>, sid |-> 0]
    /\ UNCHANGED <<stream, cameraActive, cameraFacing, capturedImage, video,
                   starts, live, navigated>>

\* response.json() settles for save s: r is "success" (result.success true),
\* "rejected" (result.success false) or "throw" (the body does not parse).
JsonSettled(s, r) ==
    /\ ~navigated
    /\ UNCHANGED <<platform, check, imageData>>
    /\ saves[s].pc = "json"
    /\ IF r = "success"
       THEN /\ saves' = [saves EXCEPT ![s].pc = "timer"]
            /\ out' = [op |-> "saveOk", msg |-> "Saved", calls |-> << >>,
                       sid |-> 0]
            /\ dom' = dom
       ELSE /\ saves' = [saves EXCEPT ![s] = NoSave]
            /\ dom' = SaveFailDom(dom)
            /\ out' = [op |-> "saveFailed",
                       msg |-> IF r = "rejected" THEN "SaveRejected"
                                                 ELSE "ServerError",
                       calls |-> << >>, sid |-> 0]
    /\ UNCHANGED <<stream, cameraActive, cameraFacing, capturedImage, video,
                   starts, live, navigated>>

\* The 1000 ms timer of save s fires: window.location.href = redirect_url.
\* Leaving the page fires beforeunload, which calls stopCamera().
Navigate(s) ==
    /\ ~navigated
    /\ UNCHANGED <<platform, check, imageData>>
    /\ saves[s].pc = "timer"
    /\ LET st == StopCamera(Cur)
       IN  /\ Apply(st)
           /\ out' = [op |-> "navigate", msg |-> "none", calls |-> st.calls,
                      sid |-> 0]
    /\ saves' = [saves EXCEPT ![s].pc = "done"]
    /\ navigated' = TRUE
    /\ UNCHANGED <<cameraFacing, capturedImage, dom, starts>>

\* beforeunload fires for a navigation that does not replace the page
\* (a download, a cancelled navigation): stopCamera().
BeforeUnload ==
    /\ ~navigated
    /\ UNCHANGED <<platform, check, imageData>>
    /\ LET st == StopCamera(Cur)
       IN  /\ Apply(st)
           /\ out' = [op |-> "stop", msg |-> "none", calls |-> st.calls,
                      sid |-> 0]
    /\ UNCHANGED <<cameraFacing, capturedImage, dom, starts, saves, navigated>>

Next ==
    \/ EnumerateResolve
    \/ EnumerateReject
    \/ StartClick
    \/ SwitchClick
    \/ \E r \in Starts : GumResolve(r)
    \/ \E r \in Starts : \E name \in ErrorNames : GumReject(r, name)
    \/ \E capsOk \in BOOLEAN : LoadedMetadata(capsOk)
    \/ \E r \in Starts : \E ok \in BOOLEAN : ApplySettled(r, ok)
    \/ \E k \in Frames : \E encOk \in BOOLEAN : CaptureClick(k, encOk)
    \/ RetakeClick
    \/ SaveClick
    \/ \E s \in SaveIds : \E ok \in BOOLEAN : FetchSettled(s, ok)
    \/ \E s \in SaveIds : \E r \in {"success", "rejected", "throw"} :
          JsonSettled(s, r)
    \/ \E s \in SaveIds : Navigate(s)
    \/ BeforeUnload

Spec == Init /\ [][Next]_vars

\* The platform settles every request a start awaits: a pending getUserMedia
\* resolves or rejects, the video element fires loadedmetadata for the
\* stream attached to it, a pending applyConstraints settles. Nothing is
\* assumed about when the page's handlers are invoked.
PlatformSettles ==
    /\ WF_vars(\E r \in Starts :
                  GumResolve(r) \/ \E name \in ErrorNames : GumReject(r, name))
    /\ WF_vars(\E capsOk \in BOOLEAN : LoadedMetadata(capsOk))
    /\ WF_vars(\E r \in Starts : \E ok \in BOOLEAN : ApplySettled(r, ok))

SpecLive == Init /\ [][Next]_vars /\ PlatformSettles

\* ------------------------------------------ enhanceImageForOCR on its own
\* capturePhoto has read the canvas (getImageData) and calls
\* enhanceImageForOCR on the result.
Enhance ==
    /\ ~imageData.enhanced
    /\ imageData' = EnhanceImageForOCR(imageData)
    /\ UNCHANGED <<stream, cameraActive, cameraFacing, capturedImage, video,
                   dom, starts, saves, live, navigated, out, platform, check>>

InitEnhance ==
    /\ InitSession
    /\ imageData \in InputImages

NextEnhance == Enhance

SpecEnhance == InitEnhance /\ [][NextEnhance]_vars

TypeOK ==
    /\ cameraActive \in BOOLEAN
    /\ cameraFacing \in Facings
    /\ navigated \in BOOLEAN
    /\ stream.id \in 0..MaxStreams
    /\ video.src \in 0..MaxStreams
    /\ \A x \in live : x.id \in StreamIds /\ x.facing \in Facings
    /\ platform \in Platforms
    /\ check \in {"enum", "done", "failed", "unsupported"}
    /\ dom.switchBtnDisplay \in {"none", "inline-block"}


\* ----------------------------------------------------------------- claims

\* C1: in every reachable state at most one camera stream is acquired from
\* the platform and not yet released.
C1_AtMostOneStream == Cardinality(live) <= 1

\* C2: whenever the preview view is shown, the active flag is false and no
\* stream handle is held.
C2_PreviewHoldsNoCamera ==
    ViewState = "PREVIEW" => ~cameraActive /\ stream = NoStream

\* C3: right after a start has ended in failure, the session is not active,
\* no stream handle is held and the stream that start acquired is released.
C3_FailedStartHoldsNoStream ==
    out.op = "startFailed" =>
        /\ ~cameraActive
        /\ stream = NoStream
        /\ out.sid \notin {x.id : x \in live}

\* C4: right after a start has ended in failure, the start control is
\* enabled and shown, so that the user can start again.
C4_FailedStartRestartable ==
    out.op = "startFailed" => StartControlAvailable

\* C5: a capture invoked while the active flag is false reports the
\* not-active error and changes nothing else: view, captured image, stream
\* handle, facing, live streams and coroutines stay as they were.
C5_CaptureNotActiveNoEffect ==
    [][(~cameraActive /\ \E k \in Frames : \E encOk \in BOOLEAN :
                            CaptureClick(k, encOk))
        => /\ out'.msg = "NotActive"
           /\ out'.calls = << >>
           /\ UNCHANGED <<stream, cameraActive, cameraFacing, capturedImage,
                          video, dom, starts, saves, live, navigated>>]_vars

C5_Witness ==
    /\ out.op = "capture"
    /\ out.msg = "NotActive"
    /\ ViewState = "PREVIEW"
    /\ capturedImage # NoImage

\* C6: a submit invoked while no captured image is held reports
\* NothingToSave, sends no request and changes nothing else, the save
\* control included.
C6_SubmitNothingToSave ==
    [][(capturedImage = NoImage /\ SaveClick)
        => /\ out'.msg = "NothingToSave"
           /\ out'.calls = << >>
           /\ UNCHANGED <<stream, cameraActive, cameraFacing, capturedImage,
                          video, dom, starts, saves, live, navigated>>]_vars

C6_Witness ==
    /\ out.op = "save"
    /\ out.msg = "NothingToSave"
    /\ capturedImage = NoImage
    /\ \A s \in SaveIds : saves[s].pc = "idle"

\* A capture that succeeds: the only step that produces a captured image.
CaptureSucceeds ==
    /\ cameraActive
    /\ \E k \in Frames : CaptureClick(k, TRUE)
    /\ capturedImage' # NoImage

\* C7: retake shows the live view and discards the captured image; from
\* then on, until a capture succeeds, no image is held and the live view
\* stays, whatever the restarted session does, and a submit reports
\* NothingToSave without sending a request.
C7_RetakeDiscardsImage ==
    [][/\ RetakeClick => ViewState' = "LIVE" /\ capturedImage' = NoImage
       /\ (capturedImage = NoImage /\ ViewState = "LIVE" /\ ~CaptureSucceeds)
            => /\ capturedImage' = NoImage
               /\ ViewState' = "LIVE"
               /\ SaveClick => /\ out'.msg = "NothingToSave"
                               /\ out'.calls = << >>
                               /\ saves' = saves]_vars

\* A retake has discarded an image that a pending save had already sent.
C7_Witness ==
    /\ out.op = "retake"
    /\ ViewState = "LIVE"
    /\ capturedImage = NoImage
    /\ \E s \in SaveIds : saves[s].pc = "fetch" /\ saves[s].view0 = "PREVIEW"

\* C8: a facing switch invoked while the active flag is true releases the
\* held stream exactly once and then requests the camera exactly once, with
\* the toggled facing; afterwards the released stream is not live.
C8_SwitchOneReleaseOneRequest ==
    [][(cameraActive /\ SwitchClick)
        => /\ out'.calls = <<Call("stop", stream.id, "none"),
                             Call("getUserMedia", 0, Toggle(cameraFacing))>>
           /\ stream \in live
           /\ live' = live \ {stream}]_vars

\* C9: once the save endpoint has reported success, the preview view stays
\* shown until the navigation happens.
C9_PreviewUntilNavigation ==
    \A s \in SaveIds : saves[s].pc = "timer" => ViewState = "PREVIEW"

\* C10: when a submit ends in failure, the save control is enabled again
\* and captured image, view and session are what they were when the submit
\* was invoked.
C10_FailedSubmitRestores ==
    [][\A s \in SaveIds :
          (saves[s].pc \in {"fetch", "json"} /\ saves'[s].pc = "idle")
          => /\ ~dom'.saveBtnDisabled
             /\ capturedImage' = saves[s].image
             /\ ViewState' = saves[s].view0
             /\ (stream' # NoStream) = saves[s].held0
             /\ cameraActive' = saves[s].active0]_vars

\* C11: right after the teardown hook has run, no stream acquired from the
\* platform is left unreleased.
C11_TeardownReleasesAll ==
    out.op \in {"stop", "navigate"} => live = {}

\* C13: stopCamera leaves no held stream and the active flag false, and
\* never changes facing, view or captured image; invoked when nothing is
\* held it releases nothing, and invoked right after itself it changes
\* nothing at all.
C13_StopIdempotent ==
    [][BeforeUnload
       => /\ stream' = NoStream /\ ~cameraActive'
          /\ video'.src = 0
          /\ UNCHANGED <<cameraFacing, capturedImage, dom>>
          /\ ViewState' = ViewState
          /\ (stream = NoStream
                => out'.calls = << >> /\ live' = live)
          /\ (stream # NoStream
                => /\ out'.calls = <<Call("stop", stream.id, "none")>>
                   /\ live' = live \ {stream})
          /\ (out.op = "stop"
                => UNCHANGED <<stream, cameraActive, cameraFacing,
                               capturedImage, video, dom, starts, saves,
                               live, navigated>>)]_vars

\* stopCamera invoked with nothing held, in the preview view with an image
C13_Witness ==
    /\ out.op = "stop" /\ out.calls = << >>
    /\ ViewState = "PREVIEW" /\ capturedImage # NoImage
    /\ stream = NoStream /\ ~cameraActive

\* C15: no start ends in failure after its stream was acquired and the
\* metadata of that stream arrived (a failed start reports the stream it
\* had acquired in out.sid, 0 when its getUserMedia request failed).
C15_NegotiationNeverFails ==
    out.op = "startFailed" => out.sid = 0

\* C16: while a start is in flight (invoked and not yet ended), every
\* capture reports the not-active error and produces no captured image.
C16_NoCaptureDuringStart ==
    [][(starts # EmptyBag
          /\ \E k \in Frames : \E encOk \in BOOLEAN : CaptureClick(k, encOk))
       => /\ out'.msg = "NotActive"
          /\ capturedImage' = capturedImage]_vars

\* C18: a retake invoked with no captured image held and the live view
\* shown releases no stream, issues no platform request and leaves the
\* session as it was.
C18_RetakeInapplicableNoOp ==
    [][(capturedImage = NoImage /\ ViewState = "LIVE" /\ RetakeClick)
       => /\ out'.calls = << >>
          /\ UNCHANGED <<stream, cameraActive, cameraFacing, capturedImage,
                         video, starts, live>>]_vars

\* C19: the facing is changed only by the facing switch, and every switch
\* step changes it to the other facing.
C19_FacingOnlyBySwitch ==
    [][/\ (SwitchClick
             => cameraFacing' # cameraFacing /\ cameraFacing' \in Facings)
       /\ (cameraFacing' # cameraFacing => SwitchClick)]_vars

\* a switch invoked while not active (no start follows) that went back to
\* the initial facing
C19_Witness ==
    /\ out.op = "switch" /\ out.calls = << >>
    /\ cameraFacing = "environment"
    /\ ~cameraActive

\* C12: enhanceImageForOCR writes to every colour byte v the real value
\* ((v - 128) * 1.4 + 128) * 1.1 clamped to [0, 255] and rounded to a nearest
\* integer (0 -> 0, 128 -> 141, 255 -> 255), every output within 0..255, and
\* leaves every alpha byte, the length of the data, the width and the height
\* unchanged. The real value is taken in thousandths.
C12_EnhanceIsClampedAffine ==
    [][Enhance
       => /\ imageData'.width = imageData.width
          /\ imageData'.height = imageData.height
          /\ Len(imageData'.data) = Len(imageData.data)
          /\ \A i \in 1..Len(imageData.data) :
                LET v == imageData.data[i]
                    o == imageData'.data[i]
                    t == ((v - 128) * 140 + 12800) * 11
                    c == IF t < 0 THEN 0 ELSE IF t > 255000 THEN 255000 ELSE t
                IN  IF i % 4 = 0
                    THEN o = v
                    ELSE /\ o \in 0..255
                         /\ 1000 * o - c \in -500..500
                         /\ (v = 0 => o = 0)
                         /\ (v = 128 => o = 141)
                         /\ (v = 255 => o = 255)]_vars

\* an enhanced image of two pixels whose first byte came from 128, whose
\* second byte was clamped to 255 and whose alpha bytes are still 0
C12_Witness ==
    /\ imageData.enhanced
    /\ imageData.width = 2
    /\ imageData.data[1] = 141
    /\ imageData.data[2] = 255
    /\ imageData.data[4] = 0 /\ imageData.data[8] = 0

\* C14: the availability check shows the switch button exactly when at
\* least two video input devices were enumerated; it disables the start
\* button when the platform has no getUserMedia (at once, in the initial
\* state) or when the enumeration succeeds with no video input device, and
\* otherwise leaves it as it is; when the enumeration fails it changes no
\* control, shows no message and nothing else changes. Only the check
\* shows the switch button.
C14_AvailabilityCheck ==
    /\ (check = "unsupported"
          => dom.startBtnDisabled /\ dom.switchBtnDisplay = "none")
    /\ [][/\ EnumerateResolve
               => /\ (dom'.switchBtnDisplay # "none") <=> (platform.cams >= 2)
                  /\ dom'.startBtnDisabled
                       = (IF platform.cams = 0 THEN TRUE
                                               ELSE dom.startBtnDisabled)
                  /\ [dom' EXCEPT !.switchBtnDisplay = "none",
                                  !.startBtnDisabled = FALSE]
                       = [dom EXCEPT !.switchBtnDisplay = "none",
                                     !.startBtnDisabled = FALSE]
          /\ EnumerateReject
               => /\ out'.msg = "none"
                  /\ UNCHANGED <<stream, cameraActive, cameraFacing,
                                 capturedImage, video, dom, starts, saves,
                                 live, navigated>>
          /\ dom'.switchBtnDisplay # dom.switchBtnDisplay
               => EnumerateResolve]_vars

\* the check completed on a platform with two cameras while a start was
\* in flight: switch button shown, start button left disabled by the start
C14_Witness ==
    /\ out.op = "check" /\ check = "done"
    /\ platform.cams = 2
    /\ dom.switchBtnDisplay = "inline-block"
    /\ starts # EmptyBag /\ dom.startBtnDisabled

\* The availability check has found that there is no usable camera.
NoUsableCameraFound ==
    check = "unsupported" \/ (check = "done" /\ platform.cams = 0)

\* C17: once the availability check has found no usable camera, the start
\* button is disabled in every later state and no step issues a
\* getUserMedia request.
C17_NoCameraStaysDisabled ==
    NoUsableCameraFound
      => /\ dom.startBtnDisabled
         /\ \A i \in 1..Len(out.calls) : out.calls[i].call # "getUserMedia"

\* The start that acquired stream k is still in flight.
StartInFlight(k) == \E r \in Starts : r.own.id = k

\* C20: when the platform settles every awaited request, every start that
\* has acquired its stream eventually ends (ACTIVE or FAILED), unless the
\* page is left first.
C20_StartTerminates ==
    \A k \in StreamIds : StartInFlight(k) ~> (~StartInFlight(k) \/ navigated)

\* C21: whenever the active flag is true, the held stream was requested
\* with the current facing.
C21_ActiveStreamHasCurrentFacing ==
    (cameraActive /\ stream # NoStream) => stream.facing = cameraFacing

\* C22: whenever the active flag is true, a stream is held.
C22_ActiveHoldsStream ==
    cameraActive => stream # NoStream

\* C23: in the initial state and after every step, a captured image is held
\* exactly when the preview view is shown; a capture that passes the
\* active test and then fails (drawing or encoding throws) reports the
\* capture error and leaves captured image, view, stream and active flag
\* as they were.
C23_ImageIffPreview ==
    /\ (capturedImage # NoImage) <=> (ViewState = "PREVIEW")
    /\ [][/\ (capturedImage' # NoImage) <=> (ViewState' = "PREVIEW")
          /\ \A k \in Frames :
                (cameraActive /\ CaptureClick(k, FALSE))
                => /\ out'.msg = "CaptureFailed"
                   /\ cameraActive'
                   /\ UNCHANGED <<capturedImage, dom, stream, live,
                                  video>>]_vars

\* a capture that failed part-way in an active session with a stream held
\* and metadata loaded
C23_Witness ==
    /\ out.op = "capture" /\ out.msg = "CaptureFailed"
    /\ cameraActive /\ stream # NoStream /\ video.meta
    /\ capturedImage = NoImage /\ ViewState = "LIVE"

\* The saves whose request is pending or has succeeded.
SavesInFlight == {s \in SaveIds : saves[s].pc \in {"fetch", "json", "timer"}}

\* C24: at most one save is in flight; while one is in flight or has
\* succeeded the save button is disabled, so no submit can start; the
\* button is enabled again only by the step in which a save fails.
C24_OneSaveInFlight ==
    /\ SavesInFlight = {} /\ ~dom.saveBtnDisabled
    /\ [][/\ Cardinality(SavesInFlight') <= 1
          /\ (SavesInFlight' # {} => dom'.saveBtnDisabled)
          /\ ((SavesInFlight # {} /\ SaveClick) => FALSE)
          /\ ((dom.saveBtnDisabled /\ ~dom'.saveBtnDisabled)
                => /\ out'.op = "saveFailed"
                   /\ SavesInFlight # {} /\ SavesInFlight' = {})]_vars

\* the response of a submit has arrived: its save is the only one in flight
\* and the save button is disabled
C24_Witness ==
    /\ out.op = "fetchOk"
    /\ Cardinality(SavesInFlight) = 1
    /\ dom.saveBtnDisabled
    /\ capturedImage # NoImage

====
